---- MODULE Spec2Model ----
(***************************************************************************)
(* Audit Trail System: configuration loading and validation, the shared    *)
(* connection pool, the per-request session scope (get_db), the            *)
(* connectivity probe, startup, the error translators and GET /health.     *)
(*                                                                         *)
(* The pool (SQLAlchemy QueuePool) and the session are stock library       *)
(* objects; they are modelled by their documented behaviour as configured  *)
(* in app/database.py: a checkout beyond pool_size + max_overflow blocks   *)
(* for at most pool_timeout seconds and then raises TimeoutError; a        *)
(* session checks a connection out on first use and returns it on commit,  *)
(* rollback or close; rollback and close are assumed to complete.          *)
(***************************************************************************)
EXTENDS Integers, Sequences, FiniteSets, TLC

(***************************************************************************)
(* Bounds of the model.  The three pool settings are read from the process *)
(* environment (config.py:46-48 gives only their defaults 10, 20, 30); the *)
(* model runs the program with small configured values.                    *)
(***************************************************************************)
NumRequests == 2
DB_POOL_SIZE == 1
DB_MAX_OVERFLOW == 0
DB_POOL_TIMEOUT == 2
MaxCloseCalls == 2

(* Program constants. *)
MIN_SECRET_KEY_LENGTH == 32
HTTP_200_OK == 200
HTTP_422_UNPROCESSABLE_ENTITY == 422
HTTP_500_INTERNAL_SERVER_ERROR == 500

Requests == 1..NumRequests

(***************************************************************************)
(* Strings that the code inspects character by character are tuples of     *)
(* one-character strings.  A process environment is a record of the four   *)
(* variables the model reads plus `set', the names that are actually set.  *)
(***************************************************************************)
PG_PREFIX == <<"p","o","s","t","g","r","e","s","q","l",":","/","/">>
URL_PG == PG_PREFIX \o <<"d","b">>
URL_PG_DRIVER == <<"p","o","s","t","g","r","e","s","q","l","+","p","g","8",":","/","/","d","b">>
URL_PG_ONE_SLASH == <<"p","o","s","t","g","r","e","s","q","l",":","/","d","b">>
URL_MYSQL == <<"m","y","s","q","l",":","/","/","d","b">>
URL_SHORT == <<"p","o","s","t">>
URL_EMPTY == <<>>

Key(n) == [i \in 1..n |-> "k"]

(* str.startswith *)
StartsWith(s, p) == Len(s) >= Len(p) /\ SubSeq(s, 1, Len(p)) = p

(* "://" occurs in the string: the URL parses as dialect://... *)
HasScheme(s) ==
    \E i \in 1..Len(s) : i + 2 <= Len(s) /\ i > 1 /\ SubSeq(s, i, i + 2) = <<":","/","/">>

(***************************************************************************)
(* Settings(): every field is read from the environment; DATABASE_URL and  *)
(* SECRET_KEY have no default and are required, the others fall back to    *)
(* their defaults.                                                         *)
(***************************************************************************)
SettingsMissingField(e) == ~({"DATABASE_URL", "SECRET_KEY"} \subseteq e.set)

Settings(e) ==
    [DATABASE_URL |-> e.DATABASE_URL,
     SECRET_KEY   |-> e.SECRET_KEY,
     ENVIRONMENT  |-> IF "ENVIRONMENT" \in e.set THEN e.ENVIRONMENT ELSE "development",
     DEBUG        |-> IF "DEBUG" \in e.set THEN e.DEBUG ELSE TRUE]

is_production(s) == s.ENVIRONMENT = "production"

(***************************************************************************)
(* validate_config(): the three checks in the order of the code.  The      *)
(* result names the ValueError raised ("none" when it returns) and whether *)
(* the DEBUG-in-production warning was printed before that.                *)
(***************************************************************************)
validate_config_OffByOne(s) ==
    IF Len(s.SECRET_KEY) <= MIN_SECRET_KEY_LENGTH
    THEN [raised |-> "ValueError: SECRET_KEY", warned |-> FALSE]
    ELSE LET w == is_production(s) /\ s.DEBUG
         IN  IF ~StartsWith(s.DATABASE_URL, PG_PREFIX)
             THEN [raised |-> "ValueError: DATABASE_URL", warned |-> w]
             ELSE [raised |-> "none", warned |-> w]

validate_config(s) ==
    IF Len(s.SECRET_KEY) < MIN_SECRET_KEY_LENGTH
    THEN [raised |-> "ValueError: SECRET_KEY", warned |-> FALSE]
    ELSE LET w == is_production(s) /\ s.DEBUG
         IN  IF ~StartsWith(s.DATABASE_URL, PG_PREFIX)
             THEN [raised |-> "ValueError: DATABASE_URL", warned |-> w]
             ELSE [raised |-> "none", warned |-> w]

(***************************************************************************)
(* Exceptions.  A failure is a record of its class and its message text;   *)
(* MRO gives each class its bases, most specific first, as Python resolves *)
(* `except' clauses and Starlette resolves exception handlers.             *)
(***************************************************************************)
MRO ==
    [RequestValidationError |-> <<"RequestValidationError", "Exception", "BaseException">>,
     SQLAlchemyError  |-> <<"SQLAlchemyError", "Exception", "BaseException">>,
     TimeoutError     |-> <<"TimeoutError", "SQLAlchemyError", "Exception", "BaseException">>,
     OperationalError |-> <<"OperationalError", "SQLAlchemyError", "Exception", "BaseException">>,
     ProgrammingError |-> <<"ProgrammingError", "SQLAlchemyError", "Exception", "BaseException">>,
     ValueError       |-> <<"ValueError", "Exception", "BaseException">>,
     CancelledError   |-> <<"CancelledError", "BaseException">>,
     GeneratorExit    |-> <<"GeneratorExit", "BaseException">>]

IsInstance(cls, base) == \E i \in 1..Len(MRO[cls]) : MRO[cls][i] = base

NoExc == [cls |-> "none", text |-> "", errors |-> <<>>]

POOL_TIMEOUT_TEXT == "QueuePool limit reached, connection timed out"

(* The failures a unit of work raises by itself. *)
WorkFailures ==
    {[cls |-> "SQLAlchemyError", text |-> "connection already closed", errors |-> <<>>],
     [cls |-> "ProgrammingError", text |-> "relation users does not exist", errors |-> <<>>],
     [cls |-> "ValueError", text |-> "invalid literal for int()", errors |-> <<>>]}

(* The interruptions thrown into the generator that are not `Exception's. *)
Interruptions == [cls : {"CancelledError", "GeneratorExit"}, text : {""}, errors : {<<>>}]

PoolTimeoutError == [cls |-> "TimeoutError", text |-> POOL_TIMEOUT_TEXT, errors |-> <<>>]

(***************************************************************************)
(* Request validation failures: exc.errors() is a list of violations, each *)
(* with a location path of names and indexes, a message and a kind.        *)
(***************************************************************************)
LocName(n) == [t |-> "str", v |-> n]
LocIndex(i) == [t |-> "int", v |-> ToString(i)]

ViolationLists ==
    {<< [loc |-> <<LocName("body"), LocName("email")>>,
         msg |-> "value is not a valid email address", type |-> "value_error.email"] >>,
     << [loc |-> <<LocName("body"), LocName("items"), LocIndex(0)>>,
         msg |-> "field required", type |-> "value_error.missing"],
        [loc |-> <<LocName("query"), LocName("limit")>>,
         msg |-> "value is not a valid integer", type |-> "type_error.integer"] >>}

ValidationFailures ==
    [cls : {"RequestValidationError"}, text : {"validation error"}, errors : ViolationLists]

(* ".".join(str(x) for x in loc) *)
RECURSIVE JoinLoc(_)
JoinLoc(loc) ==
    IF Len(loc) = 0 THEN ""
    ELSE IF Len(loc) = 1 THEN loc[1].v
    ELSE loc[1].v \o "." \o JoinLoc(Tail(loc))

(***************************************************************************)
(* The three exception handlers.  A response is a record of its status     *)
(* code, its JSON content and its headers; the "timestamp" member of the   *)
(* content (time.time()) is not modelled.                                  *)
(***************************************************************************)
validation_exception_handler(exc) ==
    [status_code |-> HTTP_422_UNPROCESSABLE_ENTITY,
     content     |-> [error  |-> "Validation Error",
                      detail |-> [i \in 1..Len(exc.errors) |->
                                    [field   |-> JoinLoc(exc.errors[i].loc),
                                     message |-> exc.errors[i].msg,
                                     type    |-> exc.errors[i].type]]],
     headers     |-> {}]

database_exception_handler(exc) ==
    [status_code |-> HTTP_500_INTERNAL_SERVER_ERROR,
     content     |-> [error  |-> "Database Error",
                      detail |-> "An error occurred while processing your request. Please try again later."],
     headers     |-> {}]

general_exception_handler(exc) ==
    [status_code |-> HTTP_500_INTERNAL_SERVER_ERROR,
     content     |-> [error  |-> "Internal Server Error",
                      detail |-> "An unexpected error occurred. Our team has been notified."],
     headers     |-> {}]

(***************************************************************************)
(* The application is built with debug=settings.DEBUG.  The handler        *)
(* registered for Exception is installed on the outermost server-error     *)
(* layer, which in debug mode answers with the traceback of the exception  *)
(* instead of calling the handler.                                         *)
(***************************************************************************)
debug_response(exc) ==
    [status_code |-> HTTP_500_INTERNAL_SERVER_ERROR,
     content     |-> [error  |-> "Traceback (most recent call last)",
                      detail |-> exc.text],
     headers     |-> {}]

(* The classes setup_exception_handlers registers a handler for. *)
RegisteredHandlers == {"RequestValidationError", "SQLAlchemyError", "Exception"}

(* The handler of the most specific registered base of the class. *)
HandlerFor(cls) ==
    LET idx == {i \in 1..Len(MRO[cls]) : MRO[cls][i] \in RegisteredHandlers}
    IN  IF idx = {} THEN "none"
        ELSE MRO[cls][CHOOSE i \in idx : \A j \in idx : i <= j]

(* log_requests: the response that call_next returned gets the header. *)
log_requests(response) ==
    [response EXCEPT !.headers = @ \cup {"X-Process-Time"}]

(***************************************************************************)
(* The response to a request whose processing raised exc.  Handlers of     *)
(* specific classes run inside log_requests; the handler of Exception runs *)
(* outside it, so call_next raises and log_requests adds nothing.          *)
(***************************************************************************)
NoResponse == [status_code |-> 0, content |-> [error |-> "", detail |-> ""], headers |-> {}]

ErrorResponse(exc, debug) ==
    LET h == HandlerFor(exc.cls)
    IN  IF h = "RequestValidationError" THEN log_requests(validation_exception_handler(exc))
        ELSE IF h = "SQLAlchemyError" THEN log_requests(database_exception_handler(exc))
        ELSE IF h = "Exception"
             THEN IF debug THEN debug_response(exc) ELSE general_exception_handler(exc)
        ELSE NoResponse


(***************************************************************************)
(* The session.  A session holds at most one pooled connection; commit,    *)
(* rollback and close each return it to the pool when it is held.          *)
(* RunOps applies a list of session calls in order and counts the          *)
(* connections returned.                                                   *)
(***************************************************************************)
SessionOp(op, held) == [held |-> FALSE, released |-> IF held THEN 1 ELSE 0]

RECURSIVE RunOps(_, _)
RunOps(ops, held) ==
    IF ops = <<>> THEN [held |-> held, released |-> 0]
    ELSE LET first == SessionOp(Head(ops), held)
             rest  == RunOps(Tail(ops), first.held)
         IN  [held |-> rest.held, released |-> first.released + rest.released]

(***************************************************************************)
(* get_db after its yield.  exc is what the unit of work threw into the    *)
(* generator (NoExc when it returned).  `except Exception' runs rollback   *)
(* and re-raises; `finally' runs close on every path.                      *)
(***************************************************************************)
GetDbCatches(exc) == exc # NoExc /\ IsInstance(exc.cls, "Exception")

GetDbReraised_Wrapped(exc) == [cls |-> "SQLAlchemyError", text |-> exc.text, errors |-> <<>>]

GetDbReraised(exc) == exc

get_db_NoFinally(exc) ==
    [ops     |-> IF GetDbCatches(exc) THEN <<"rollback">> ELSE <<"close">>,
     emerged |-> IF GetDbCatches(exc) THEN GetDbReraised(exc) ELSE exc]

get_db(exc) ==
    [ops     |-> (IF GetDbCatches(exc) THEN <<"rollback">> ELSE <<>>) \o <<"close">>,
     emerged |-> IF GetDbCatches(exc) THEN GetDbReraised(exc) ELSE exc]

(***************************************************************************)
(* check_db_connection.  q is what db.execute("SELECT 1") does once the    *)
(* pool lets the checkout through ("pool_timeout" when it does not):       *)
(* QueryError is the exception it raises, QueryHolds whether the session   *)
(* has a connection checked out when it raises.  db.close() is in the try  *)
(* body, so it runs only when the query succeeded.                         *)
(***************************************************************************)
QueryOutcomes == {"ok", "unreachable", "rejected"}

QueryError(q) ==
    CASE q = "ok"           -> NoExc
      [] q = "unreachable"  -> [cls |-> "OperationalError", text |-> "could not connect to server", errors |-> <<>>]
      [] q = "rejected"     -> [cls |-> "ProgrammingError", text |-> "relation users does not exist", errors |-> <<>>]
      [] q = "pool_timeout" -> PoolTimeoutError

QueryHolds(q) == q \in {"ok", "rejected"}

ProbeCatches_TimeoutOnly(exc) == IsInstance(exc.cls, "TimeoutError")

ProbeCatches(exc) == IsInstance(exc.cls, "Exception")

check_db_connection(q) ==
    LET exc == QueryError(q)
    IN  IF exc = NoExc
        THEN [q |-> q, ret |-> TRUE, raised |-> NoExc, ops |-> <<"close">>,
              held |-> RunOps(<<"close">>, QueryHolds(q)).held]
        ELSE IF ProbeCatches(exc)
        THEN [q |-> q, ret |-> FALSE, raised |-> NoExc, ops |-> <<>>, held |-> QueryHolds(q)]
        ELSE [q |-> q, ret |-> FALSE, raised |-> exc, ops |-> <<>>, held |-> QueryHolds(q)]

NoProbe == [q |-> "none", ret |-> FALSE, raised |-> NoExc, ops |-> <<>>, held |-> FALSE]

(* health_check's return value; FastAPI sends it with status 200. *)
health_check_StatusFollowsProbe(db_healthy) ==
    [status_code |-> IF db_healthy THEN HTTP_200_OK ELSE HTTP_500_INTERNAL_SERVER_ERROR,
     content     |-> [status   |-> IF db_healthy THEN "healthy" ELSE "unhealthy",
                      database |-> IF db_healthy THEN "connected" ELSE "disconnected"],
     headers     |-> {}]

health_check(db_healthy) ==
    [status_code |-> HTTP_200_OK,
     content     |-> [status   |-> IF db_healthy THEN "healthy" ELSE "unhealthy",
                      database |-> IF db_healthy THEN "connected" ELSE "disconnected"],
     headers     |-> {}]

(* The response of an endpoint that returned normally. *)
OkResponse ==
    [status_code |-> HTTP_200_OK, content |-> [error |-> "", detail |-> ""], headers |-> {}]

(***************************************************************************)
(* State.                                                                  *)
(***************************************************************************)
VARIABLES
    env,            \* the process environment
    settings,       \* the Settings singleton, once loaded
    phase,          \* "import_config", "import_database", "startup", "serving", "exited"
    exitCode,       \* the exit status once phase = "exited", else -1
    startupLog,     \* the startup steps taken so far, in order
    configResult,   \* what validate_config did at startup
    startupProbe,   \* the run of check_db_connection at startup, if any
    engineCreated,  \* create_engine has built the engine and its pool
    checkedout,     \* connections checked out of the pool
    leaked,         \* of those, held by sessions nobody will close
    idle,           \* connections checked in, waiting in the pool for reuse
    disposeLog,     \* one entry per close_db_connections call: what it did
    pc,             \* per request: "idle", "scope", "waiting", "returned", "raised", "done"
    kind,           \* per request: "none", "db", "health", "invalid"
    conn,           \* per request: its session holds a pooled connection
    waited,         \* per request: seconds spent blocked in the pool's checkout
    thrown,         \* per request: the failure raised inside the request
    emerged,        \* per request: the failure that left get_db
    provOps,        \* per request: the session calls get_db or the probe made
    released,       \* per request: connections those calls returned to the pool
    probe,          \* per request: the run of check_db_connection it made, if any
    resp            \* per request: the response sent

vars == <<env, settings, phase, exitCode, startupLog, configResult, startupProbe, engineCreated,
          checkedout, leaked, idle, disposeLog, pc, kind, conn, waited, thrown, emerged, provOps,
          released, probe, resp>>

startupVars == <<env, settings, phase, exitCode, startupLog, configResult, startupProbe,
                 engineCreated, disposeLog>>
poolVars == <<checkedout, leaked, idle>>
requestVars == <<pc, kind, conn, waited, thrown, emerged, provOps, released, probe, resp>>

NoSettings == [DATABASE_URL |-> <<>>, SECRET_KEY |-> <<>>, ENVIRONMENT |-> "", DEBUG |-> FALSE]

Env(url, key, environment, debug, set) ==
    [DATABASE_URL |-> url, SECRET_KEY |-> key, ENVIRONMENT |-> environment,
     DEBUG |-> debug, set |-> set]

AllNames == {"DATABASE_URL", "SECRET_KEY", "ENVIRONMENT", "DEBUG"}

(* The environments the full system is run in. *)
Environments ==
    {Env(URL_PG, Key(32), "", FALSE, {"DATABASE_URL", "SECRET_KEY"}),
     Env(URL_PG, Key(33), "production", FALSE, AllNames),
     Env(URL_PG, Key(31), "production", TRUE, AllNames),
     Env(URL_MYSQL, Key(32), "development", TRUE, AllNames),
     Env(URL_EMPTY, Key(32), "development", FALSE, AllNames),
     Env(URL_PG, <<>>, "", FALSE, {"DATABASE_URL"})}

InitWith(environments) ==
    /\ env \in environments
    /\ settings = NoSettings
    /\ phase = "import_config"
    /\ exitCode = -1
    /\ startupLog = <<>>
    /\ configResult = [raised |-> "not run", warned |-> FALSE]
    /\ startupProbe = NoProbe
    /\ engineCreated = FALSE
    /\ checkedout = 0
    /\ leaked = 0
    /\ idle = 0
    /\ disposeLog = <<>>
    /\ pc = [r \in Requests |-> "idle"]
    /\ kind = [r \in Requests |-> "none"]
    /\ conn = [r \in Requests |-> FALSE]
    /\ waited = [r \in Requests |-> 0]
    /\ thrown = [r \in Requests |-> NoExc]
    /\ emerged = [r \in Requests |-> NoExc]
    /\ provOps = [r \in Requests |-> <<>>]
    /\ released = [r \in Requests |-> 0]
    /\ probe = [r \in Requests |-> NoProbe]
    /\ resp = [r \in Requests |-> NoResponse]

Init == InitWith(Environments)

(* A checkout reuses an idle connection when there is one; a connection    *)
(* coming back is kept idle up to pool_size and closed beyond it.          *)
PoolCheckout(i) == IF i > 0 THEN i - 1 ELSE i

PoolCheckin(i, n) == IF i + n <= DB_POOL_SIZE THEN i + n ELSE DB_POOL_SIZE

(* The idle connections after a run p of the probe. *)
ProbeIdle(i, p) ==
    PoolCheckin(IF QueryHolds(p.q) THEN PoolCheckout(i) ELSE i,
                RunOps(p.ops, QueryHolds(p.q)).released)

Exit(code) == phase' = "exited" /\ exitCode' = code

(***************************************************************************)
(* Startup.  main.py imports app.core.config (settings = get_settings()),  *)
(* then the database module (engine = create_engine(...)), and only then   *)
(* does the server run startup_event.                                      *)
(***************************************************************************)
get_settings ==
    /\ phase = "import_config"
    /\ startupLog' = Append(startupLog, "load")
    /\ IF SettingsMissingField(env)
       THEN Exit(1) /\ UNCHANGED settings
       ELSE phase' = "import_database" /\ settings' = Settings(env) /\ UNCHANGED exitCode
    /\ UNCHANGED <<env, configResult, startupProbe, engineCreated, disposeLog>>
    /\ UNCHANGED <<poolVars, requestVars>>

(* create_engine builds the pool without connecting; a URL it cannot parse *)
(* is an ArgumentError at import.                                          *)
create_engine ==
    /\ phase = "import_database"
    /\ IF HasScheme(settings.DATABASE_URL)
       THEN /\ engineCreated' = TRUE
            /\ startupLog' = Append(startupLog, "open_pool")
            /\ phase' = "startup"
            /\ UNCHANGED exitCode
       ELSE Exit(1) /\ UNCHANGED <<engineCreated, startupLog>>
    /\ UNCHANGED <<env, settings, configResult, startupProbe, disposeLog>>
    /\ UNCHANGED <<poolVars, requestVars>>

startup_event(q) ==
    /\ phase = "startup"
    /\ LET v == validate_config(settings)
           p == check_db_connection(q)
       IN  /\ configResult' = v
           /\ IF v.raised # "none"
              THEN /\ startupLog' = Append(startupLog, "validate")
                   /\ Exit(1)
                   /\ UNCHANGED <<poolVars, startupProbe>>
              ELSE /\ startupLog' = startupLog \o <<"validate", "probe">>
                   /\ startupProbe' = p
                   /\ checkedout' = checkedout + (IF p.held THEN 1 ELSE 0)
                   /\ leaked' = leaked + (IF p.held THEN 1 ELSE 0)
                   /\ idle' = ProbeIdle(idle, p)
                   /\ IF p.raised # NoExc \/ ~p.ret
                      THEN Exit(1)
                      ELSE phase' = "serving" /\ UNCHANGED exitCode
    /\ UNCHANGED <<env, settings, engineCreated, disposeLog>>
    /\ UNCHANGED requestVars

(***************************************************************************)
(* The pool.  QueuePool hands out a connection while fewer than            *)
(* pool_size + max_overflow are checked out; otherwise the caller blocks   *)
(* until one is returned or pool_timeout seconds have passed.              *)
(***************************************************************************)
PoolCapacity == DB_POOL_SIZE + DB_MAX_OVERFLOW

PoolHasRoom_OffByOne == checkedout <= PoolCapacity

PoolHasRoom == checkedout < PoolCapacity

PoolTimedOut_Immediately(r) == waited[r] >= 0

PoolTimedOut(r) == waited[r] >= DB_POOL_TIMEOUT

Serving == phase = "serving"

(***************************************************************************)
(* A request to an endpoint that depends on get_db: the generator runs to  *)
(* its yield (SessionLocal() creates the session, no connection yet).      *)
(***************************************************************************)
get_db_enter(r) ==
    /\ Serving /\ pc[r] = "idle"
    /\ pc' = [pc EXCEPT ![r] = "scope"]
    /\ kind' = [kind EXCEPT ![r] = "db"]
    /\ UNCHANGED <<conn, waited, thrown, emerged, provOps, released, probe, resp>>
    /\ UNCHANGED <<startupVars, poolVars>>

(* The unit of work's first statement on the session checks a connection   *)
(* out, or blocks when the pool has none to give.                          *)
SessionExecute(r) ==
    /\ pc[r] = "scope" /\ ~conn[r]
    /\ IF PoolHasRoom
       THEN /\ conn' = [conn EXCEPT ![r] = TRUE]
            /\ checkedout' = checkedout + 1
            /\ idle' = PoolCheckout(idle)
            /\ UNCHANGED <<pc, waited>>
       ELSE /\ pc' = [pc EXCEPT ![r] = "waiting"]
            /\ waited' = [waited EXCEPT ![r] = 0]
            /\ UNCHANGED <<conn, checkedout, idle>>
    /\ UNCHANGED <<kind, thrown, emerged, provOps, released, probe, resp, leaked>>
    /\ UNCHANGED startupVars

(* The caller commits: the transaction ends and the connection goes back.  *)
SessionCommit(r) ==
    /\ pc[r] = "scope" /\ conn[r]
    /\ LET s == SessionOp("commit", conn[r])
       IN  /\ conn' = [conn EXCEPT ![r] = s.held]
           /\ checkedout' = checkedout - s.released
           /\ idle' = PoolCheckin(idle, s.released)
    /\ UNCHANGED <<pc, kind, waited, thrown, emerged, provOps, released, probe, resp, leaked>>
    /\ UNCHANGED startupVars

(* The scope ends: get_db resumes after its yield with what was thrown in. *)
GetDbExit(r, exc, nextpc) ==
    LET g == get_db(exc)
        s == RunOps(g.ops, conn[r])
    IN  /\ provOps' = [provOps EXCEPT ![r] = g.ops]
        /\ released' = [released EXCEPT ![r] = s.released]
        /\ conn' = [conn EXCEPT ![r] = s.held]
        /\ checkedout' = checkedout - s.released
        /\ idle' = PoolCheckin(idle, s.released)
        /\ thrown' = [thrown EXCEPT ![r] = exc]
        /\ emerged' = [emerged EXCEPT ![r] = g.emerged]
        /\ pc' = [pc EXCEPT ![r] = nextpc]

WorkReturns(r) ==
    /\ pc[r] = "scope"
    /\ GetDbExit(r, NoExc, "returned")
    /\ UNCHANGED <<kind, waited, probe, resp, leaked>>
    /\ UNCHANGED startupVars

WorkRaises(r, exc) ==
    /\ pc[r] = "scope"
    /\ GetDbExit(r, exc, "raised")
    /\ UNCHANGED <<kind, waited, probe, resp, leaked>>
    /\ UNCHANGED startupVars

(* The request is cancelled, or the generator is closed, at the yield: no  *)
(* response is sent.                                                       *)
WorkInterrupted(r, exc) ==
    /\ pc[r] = "scope"
    /\ GetDbExit(r, exc, "done")
    /\ UNCHANGED <<kind, waited, probe, resp, leaked>>
    /\ UNCHANGED startupVars

(***************************************************************************)
(* GET /health.  The probe's checkout goes through the same pool: with     *)
(* room the whole handler runs, without room it blocks first.              *)
(***************************************************************************)
HealthRespond(r, q) ==
    LET p == check_db_connection(q)
    IN  /\ probe' = [probe EXCEPT ![r] = p]
        /\ provOps' = [provOps EXCEPT ![r] = p.ops]
        /\ released' = [released EXCEPT ![r] = RunOps(p.ops, QueryHolds(q)).released]
        /\ thrown' = [thrown EXCEPT ![r] = p.raised]
        /\ checkedout' = checkedout + (IF p.held THEN 1 ELSE 0)
        /\ leaked' = leaked + (IF p.held THEN 1 ELSE 0)
        /\ idle' = ProbeIdle(idle, p)
        /\ resp' = [resp EXCEPT ![r] =
                      IF p.raised = NoExc
                      THEN log_requests(health_check(p.ret))
                      ELSE ErrorResponse(p.raised, settings.DEBUG)]
        /\ pc' = [pc EXCEPT ![r] = "done"]

HealthRequest(r, q) ==
    /\ Serving /\ pc[r] = "idle"
    /\ kind' = [kind EXCEPT ![r] = "health"]
    /\ IF PoolHasRoom
       THEN HealthRespond(r, q) /\ UNCHANGED waited
       ELSE /\ pc' = [pc EXCEPT ![r] = "waiting"]
            /\ waited' = [waited EXCEPT ![r] = 0]
            /\ UNCHANGED <<probe, provOps, released, thrown, resp, poolVars>>
    /\ UNCHANGED <<conn, emerged>>
    /\ UNCHANGED startupVars

(***************************************************************************)
(* A blocked checkout: time passes, and it ends either with a connection   *)
(* another session returned or with TimeoutError after pool_timeout.       *)
(***************************************************************************)
Tick(r) ==
    /\ pc[r] = "waiting" /\ ~PoolTimedOut(r)
    /\ waited' = [waited EXCEPT ![r] = @ + 1]
    /\ UNCHANGED <<pc, kind, conn, thrown, emerged, provOps, released, probe, resp>>
    /\ UNCHANGED <<startupVars, poolVars>>

PoolAcquire(r, q) ==
    /\ pc[r] = "waiting" /\ PoolHasRoom
    /\ IF kind[r] = "db"
       THEN /\ conn' = [conn EXCEPT ![r] = TRUE]
            /\ checkedout' = checkedout + 1
            /\ idle' = PoolCheckout(idle)
            /\ pc' = [pc EXCEPT ![r] = "scope"]
            /\ UNCHANGED <<thrown, provOps, released, probe, resp, leaked>>
       ELSE HealthRespond(r, q) /\ UNCHANGED conn
    /\ UNCHANGED <<kind, waited, emerged>>
    /\ UNCHANGED startupVars

PoolTimeout(r) ==
    /\ pc[r] = "waiting" /\ PoolTimedOut(r)
    /\ IF kind[r] = "db"
       THEN /\ GetDbExit(r, PoolTimeoutError, "raised")
            /\ UNCHANGED <<probe, resp, leaked>>
       ELSE HealthRespond(r, "pool_timeout") /\ UNCHANGED <<conn, emerged>>
    /\ UNCHANGED <<kind, waited>>
    /\ UNCHANGED startupVars

(***************************************************************************)
(* The response of a request that went through get_db, and of one whose    *)
(* parameters failed validation before the endpoint ran.                   *)
(***************************************************************************)
Respond(r) ==
    /\ pc[r] \in {"returned", "raised"}
    /\ resp' = [resp EXCEPT ![r] =
                  IF pc[r] = "returned" THEN log_requests(OkResponse)
                  ELSE ErrorResponse(emerged[r], settings.DEBUG)]
    /\ pc' = [pc EXCEPT ![r] = "done"]
    /\ UNCHANGED <<kind, conn, waited, thrown, emerged, provOps, released, probe>>
    /\ UNCHANGED <<startupVars, poolVars>>

InvalidRequest(r, exc) ==
    /\ Serving /\ pc[r] = "idle"
    /\ kind' = [kind EXCEPT ![r] = "invalid"]
    /\ thrown' = [thrown EXCEPT ![r] = exc]
    /\ resp' = [resp EXCEPT ![r] = ErrorResponse(exc, settings.DEBUG)]
    /\ pc' = [pc EXCEPT ![r] = "done"]
    /\ UNCHANGED <<conn, waited, emerged, provOps, released, probe>>
    /\ UNCHANGED <<startupVars, poolVars>>

(* A session nobody closed is collected and its connection returns.        *)
GarbageCollect ==
    /\ leaked > 0
    /\ leaked' = leaked - 1
    /\ checkedout' = checkedout - 1
    /\ idle' = IF disposeLog = <<>> THEN PoolCheckin(idle, 1) ELSE idle
    /\ UNCHANGED <<startupVars, requestVars>>

(***************************************************************************)
(* Shutdown.  engine.dispose() closes the connections that are checked in  *)
(* and gives the engine a fresh, empty pool; it returns at once and does   *)
(* not touch the connections that are checked out.  A connection a         *)
(* collected session gives back after that goes to the discarded pool.     *)
(***************************************************************************)
engine_dispose_KeepsQueue(i) == [closed |-> i, idle |-> i]

engine_dispose(i) == [closed |-> i, idle |-> 0]

close_db_connections ==
    LET d == engine_dispose(idle)
    IN  /\ idle' = d.idle
        /\ disposeLog' = Append(disposeLog,
                                [closed |-> d.closed, idle |-> d.idle, checkedout |-> checkedout])
        /\ UNCHANGED <<checkedout, leaked>>

(* The server runs the shutdown hook once every request in flight has      *)
(* been answered.                                                          *)
Drained == \A r \in Requests : pc[r] \in {"idle", "done"}

shutdown_event ==
    /\ Serving /\ Drained
    /\ close_db_connections
    /\ phase' = "stopped"
    /\ exitCode' = 0
    /\ UNCHANGED <<env, settings, startupLog, configResult, startupProbe, engineCreated>>
    /\ UNCHANGED requestVars

(* A further call, as the atexit registration the docstring suggests.      *)
CloseAgain ==
    /\ phase = "stopped" /\ Len(disposeLog) < MaxCloseCalls
    /\ close_db_connections
    /\ UNCHANGED <<env, settings, phase, exitCode, startupLog, configResult, startupProbe,
                   engineCreated>>
    /\ UNCHANGED requestVars

Next ==
    \/ get_settings
    \/ create_engine
    \/ \E q \in QueryOutcomes : startup_event(q)
    \/ shutdown_event
    \/ CloseAgain
    \/ \E r \in Requests : get_db_enter(r)
    \/ \E r \in Requests : SessionExecute(r)
    \/ \E r \in Requests : SessionCommit(r)
    \/ \E r \in Requests : WorkReturns(r)
    \/ \E r \in Requests, exc \in WorkFailures : WorkRaises(r, exc)
    \/ \E r \in Requests, exc \in Interruptions : WorkInterrupted(r, exc)
    \/ \E r \in Requests, q \in QueryOutcomes : HealthRequest(r, q)
    \/ \E r \in Requests : Tick(r)
    \/ \E r \in Requests, q \in QueryOutcomes : PoolAcquire(r, q)
    \/ \E r \in Requests : PoolTimeout(r)
    \/ \E r \in Requests : Respond(r)
    \/ \E r \in Requests, exc \in ValidationFailures : InvalidRequest(r, exc)
    \/ GarbageCollect

Spec == Init /\ [][Next]_vars

(* Time passes for a blocked checkout, and its timed wait ends. *)
Fairness == \A r \in Requests : WF_vars(Tick(r)) /\ WF_vars(PoolTimeout(r))

LiveSpec == Spec /\ Fairness

(***************************************************************************)
(* Startup alone, over a wider set of environments.                        *)
(***************************************************************************)
URL_UPPER == <<"P","O","S","T","G","R","E","S","Q","L",":","/","/","d","b">>
URL_SUFFIX == <<"x">> \o URL_PG

KeyLengths ==
    {0, MIN_SECRET_KEY_LENGTH - 1, MIN_SECRET_KEY_LENGTH, MIN_SECRET_KEY_LENGTH + 1}

ConfigInputs ==
    {Env(url, Key(n), e, d, AllNames) :
        url \in {URL_PG, URL_PG_DRIVER, URL_PG_ONE_SLASH, URL_MYSQL, URL_SHORT, URL_EMPTY,
                 URL_UPPER, URL_SUFFIX},
        n \in KeyLengths,
        e \in {"development", "staging", "production"},
        d \in BOOLEAN}

InitConfig == InitWith(ConfigInputs)

NextStartup ==
    \/ get_settings
    \/ create_engine
    \/ \E q \in QueryOutcomes : startup_event(q)

SpecConfig == InitConfig /\ [][NextStartup]_vars

(***************************************************************************)
(* Properties.                                                             *)
(***************************************************************************)
Count(seq, x) == Cardinality({i \in 1..Len(seq) : seq[i] = x})

FinishedScope(r) == kind[r] = "db" /\ pc[r] \in {"returned", "raised", "done"}

Failed(r) == thrown[r] # NoExc /\ IsInstance(thrown[r].cls, "Exception")

Interrupted(r) == thrown[r] # NoExc /\ ~IsInstance(thrown[r].cls, "Exception")

(* Every connection checked out is held by a live session or by a leaked one. *)
PoolConservation ==
    checkedout = Cardinality({r \in Requests : conn[r]}) + leaked

(* C1: every session scope that has ended, however it ended, closed its    *)
(* session exactly once and returned at most one connection; no finished   *)
(* scope holds a connection, the pool's count is exactly the connections   *)
(* still held, and a scope that ended normally issued close and nothing    *)
(* else (no commit, no rollback).                                          *)
C1_SessionReleasedOnEveryExit ==
    /\ \A r \in Requests :
         FinishedScope(r) =>
           /\ Count(provOps[r], "close") = 1
           /\ provOps[r][Len(provOps[r])] = "close"
           /\ released[r] <= 1
           /\ ~conn[r]
           /\ (thrown[r] = NoExc => provOps[r] = <<"close">>)
    /\ PoolConservation

C1_Witness ==
    \E r1, r2 \in Requests :
        /\ FinishedScope(r1) /\ thrown[r1] = NoExc /\ released[r1] = 1
        /\ FinishedScope(r2) /\ thrown[r2] # NoExc /\ released[r2] = 1
        /\ checkedout = 0

C3_InterruptedScopeRollsBack ==
    \A r \in Requests :
        (FinishedScope(r) /\ Interrupted(r)) => provOps[r] = <<"rollback", "close">>

(* C4: the number of connections checked out never exceeds                 *)
(* DB_POOL_SIZE + DB_MAX_OVERFLOW.                                         *)
C4_CheckedOutWithinCapacity ==
    checkedout >= 0 /\ checkedout <= DB_POOL_SIZE + DB_MAX_OVERFLOW

C4_Witness ==
    /\ checkedout = DB_POOL_SIZE + DB_MAX_OVERFLOW
    /\ \E r1, r2 \in Requests : conn[r1] /\ pc[r2] = "waiting"

(* C5: no checkout succeeds while the pool is full; a blocked checkout     *)
(* ends only by obtaining a connection the pool has room for or, once      *)
(* DB_POOL_TIMEOUT has elapsed, by failing with the pool's TimeoutError;   *)
(* and every blocked checkout ends.                                        *)
C5_BlockedCheckoutEnds ==
    /\ [][\A r \in Requests :
            /\ (~conn[r] /\ conn'[r]) => checkedout < DB_POOL_SIZE + DB_MAX_OVERFLOW
            /\ (pc[r] = "waiting" /\ pc'[r] # "waiting") =>
                 \/ /\ checkedout < DB_POOL_SIZE + DB_MAX_OVERFLOW
                    /\ kind[r] = "db" => conn'[r]
                    /\ kind[r] = "health" => probe'[r].q # "pool_timeout"
                 \/ /\ waited[r] >= DB_POOL_TIMEOUT
                    /\ kind[r] = "db" => thrown'[r] = PoolTimeoutError
                    /\ kind[r] = "health" => probe'[r].q = "pool_timeout"]_vars
    /\ \A r \in Requests : (pc[r] = "waiting") ~> (pc[r] # "waiting")

C5_Witness ==
    \E r1, r2 \in Requests :
        /\ kind[r1] = "db" /\ thrown[r1] = PoolTimeoutError /\ waited[r1] = DB_POOL_TIMEOUT
        /\ conn[r2]

(* C6: the startup steps run in the order load, validate, open pool,       *)
(* probe; a failed step exits non-zero and the process never serves; and   *)
(* after a failed validation no pool has been opened.                      *)
StartupOrder == <<"load", "validate", "open_pool", "probe">>

C6_StartupStepsInOrder ==
    /\ Len(startupLog) <= Len(StartupOrder)
    /\ startupLog = SubSeq(StartupOrder, 1, Len(startupLog))
    /\ phase = "exited" => exitCode # 0
    /\ configResult.raised \notin {"not run", "none"} => phase = "exited" /\ ~engineCreated
    /\ (startupProbe.q # "none" /\ ~startupProbe.ret) => phase = "exited"

(* C7: check_db_connection never raises; it returns true exactly when its  *)
(* query succeeded and false for every way the query fails.                *)
ProbeRuns == {startupProbe} \cup {probe[r] : r \in Requests}

C7_ProbeNeverRaises ==
    \A p \in ProbeRuns :
        p.q # "none" => (p.raised = NoExc /\ (p.ret <=> p.q = "ok"))

C7_Witness ==
    /\ \E r \in Requests : probe[r].q = "pool_timeout" /\ ~probe[r].ret
    /\ \E r \in Requests : probe[r].q \in {"unreachable", "rejected"} /\ ~probe[r].ret

(* C8: validate_config fails exactly when the key has fewer than 32        *)
(* characters or the connection string does not begin with the thirteen    *)
(* characters postgresql://; production with DEBUG on prints the warning   *)
(* and does not fail by itself.                                            *)
BeginsWithScheme(url) ==
    /\ Len(url) >= Len(PG_PREFIX)
    /\ \A i \in 1..Len(PG_PREFIX) : url[i] = PG_PREFIX[i]

C8_ValidationFailsExactlyWhen ==
    configResult.raised # "not run" =>
        LET weak == Len(settings.SECRET_KEY) <= MIN_SECRET_KEY_LENGTH - 1
            badUrl == ~BeginsWithScheme(settings.DATABASE_URL)
            prodDebug == settings.ENVIRONMENT = "production" /\ settings.DEBUG
        IN  /\ configResult.raised # "none" <=> (weak \/ badUrl)
            /\ (prodDebug /\ ~weak /\ ~badUrl) =>
                 (configResult.raised = "none" /\ configResult.warned)
            /\ configResult.warned => prodDebug

C8_Witness ==
    /\ configResult.raised = "none" /\ configResult.warned
    /\ Len(settings.SECRET_KEY) = MIN_SECRET_KEY_LENGTH
    /\ phase = "serving"

(* C9: GET /health always answers with status 200, its body says healthy   *)
(* and connected exactly when the probe returned true and unhealthy and    *)
(* disconnected exactly when it returned false, and a health request that  *)
(* has started is always answered.                                         *)
C9_HealthAlwaysResponds ==
    /\ [](\A r \in Requests :
            (kind[r] = "health" /\ pc[r] = "done") =>
              /\ resp[r].status_code = HTTP_200_OK
              /\ probe[r].q # "none"
              /\ probe[r].ret =>
                   (resp[r].content.status = "healthy" /\ resp[r].content.database = "connected")
              /\ ~probe[r].ret =>
                   (resp[r].content.status = "unhealthy"
                    /\ resp[r].content.database = "disconnected"))
    /\ \A r \in Requests : (kind[r] = "health") ~> (pc[r] = "done")

C9_Witness ==
    \E r1, r2 \in Requests :
        /\ kind[r1] = "health" /\ pc[r1] = "done" /\ probe[r1].q = "pool_timeout"
        /\ waited[r1] = DB_POOL_TIMEOUT
        /\ resp[r1].status_code = HTTP_200_OK /\ resp[r1].content.status = "unhealthy"
        /\ kind[r2] = "db" /\ conn[r2]

(* C10: a failure escaping a request gets one of three responses: 422      *)
(* with one {field, message, type} per violation for a validation failure, *)
(* 500 "Database Error" for a data-layer failure, 500 with the generic     *)
(* unexpected-error message for anything else; and neither 500 body        *)
(* contains the exception's text.                                          *)
RequestFailure(r) == IF kind[r] = "db" THEN emerged[r] ELSE thrown[r]

C10_FailuresTranslated ==
    \A r \in Requests :
        (pc[r] = "done" /\ RequestFailure(r) # NoExc
         /\ IsInstance(RequestFailure(r).cls, "Exception")) =>
            LET exc == RequestFailure(r)
                c == resp[r].content
            IN  IF exc.cls = "RequestValidationError"
                THEN /\ resp[r].status_code = HTTP_422_UNPROCESSABLE_ENTITY
                     /\ Len(c.detail) = Len(exc.errors)
                     /\ \A i \in 1..Len(c.detail) :
                          /\ DOMAIN c.detail[i] = {"field", "message", "type"}
                          /\ c.detail[i].message = exc.errors[i].msg
                          /\ c.detail[i].type = exc.errors[i].type
                ELSE /\ resp[r].status_code = HTTP_500_INTERNAL_SERVER_ERROR
                     /\ IF IsInstance(exc.cls, "SQLAlchemyError")
                        THEN c.error = "Database Error"
                        ELSE c.detail = "An unexpected error occurred. Our team has been notified."
                     /\ c.error # exc.text
                     /\ c.detail # exc.text

(* C11: a second or later call of close_db_connections closes no           *)
(* connection (none is released twice), leaves the pool as the call before *)
(* it left it, and raises nothing: the process stays stopped with exit     *)
(* status 0 and the pool's connections are those of before the call.       *)
C11_CloseIsIdempotent ==
    /\ [](\A k \in 2..Len(disposeLog) :
            /\ disposeLog[k].closed = 0
            /\ disposeLog[k].idle = disposeLog[k - 1].idle)
    /\ [][(Len(disposeLog) >= 1 /\ Len(disposeLog') > Len(disposeLog)) =>
            /\ idle' = idle /\ checkedout' = checkedout /\ leaked' = leaked
            /\ phase' = "stopped" /\ exitCode' = 0]_vars

C11_Witness ==
    /\ Len(disposeLog) >= 2
    /\ disposeLog[1].closed >= 1
    /\ disposeLog[2].closed = 0

(* C12: once close_db_connections has completed, no connection is still    *)
(* checked out: what was checked out when it ran has been waited for or    *)
(* reclaimed.                                                              *)
C12_CloseReclaimsCheckedOut ==
    /\ \A k \in 1..Len(disposeLog) : disposeLog[k].checkedout = 0
    /\ disposeLog # <<>> => checkedout = 0

(* C13: every response sent carries the X-Process-Time header.             *)
C13_EveryResponseHasDuration ==
    \A r \in Requests :
        (pc[r] = "done" /\ resp[r] # NoResponse) => "X-Process-Time" \in resp[r].headers

(* C14: every run of check_db_connection, whichever value it returned,     *)
(* closed the session it created and left no connection checked out, so    *)
(* no probe ever adds to the connections held by unclosed sessions.        *)
C14_ProbeLeavesPoolAsFound ==
    /\ \A p \in ProbeRuns :
         p.q # "none" => (Count(p.ops, "close") = 1 /\ ~p.held)
    /\ leaked = 0

====
